---------------------------- MODULE Spec2Model ----------------------------
(***************************************************************************)
(* A model of gamma-tool (src/gamma-tool.c): the command line, the run     *)
(* over the display devices of the colour-management service, the three    *)
(* per-device handlers (info, remove, apply) and the file-name encoding    *)
(* and decoding that apply and info use.                                   *)
(*                                                                         *)
(* Strings are sequences of one-character strings.  A gfloat is a pair     *)
(* <<m, e>> standing for m * 2^e with 2^23 <= |m| < 2^24 (or m = 0), so    *)
(* that the single-precision product and the (int) cast of                 *)
(* handle_apply_mode are computed as the machine computes them.            *)
(***************************************************************************)
EXTENDS Integers, Sequences, FiniteSets, TLC

(***************************************************************************)
(* Characters and strings                                                  *)
(***************************************************************************)
Digits == {"0", "1", "2", "3", "4", "5", "6", "7", "8", "9"}

DigitVal(c) ==
    CASE c = "0" -> 0 [] c = "1" -> 1 [] c = "2" -> 2 [] c = "3" -> 3
      [] c = "4" -> 4 [] c = "5" -> 5 [] c = "6" -> 6 [] c = "7" -> 7
      [] c = "8" -> 8 [] c = "9" -> 9

DigitChar(d) ==
    CASE d = 0 -> "0" [] d = 1 -> "1" [] d = 2 -> "2" [] d = 3 -> "3"
      [] d = 4 -> "4" [] d = 5 -> "5" [] d = 6 -> "6" [] d = 7 -> "7"
      [] d = 8 -> "8" [] d = 9 -> "9"

\* isspace(): the model's alphabet has the blank only
IsSpace(c) == c = " "

\* g_str_has_prefix(s, p)
HasPrefix(s, p) == Len(s) >= Len(p) /\ SubSeq(s, 1, Len(p)) = p

\* the index of the last "/" of s, 0 when there is none
RECURSIVE LastSlash(_, _)
LastSlash(s, i) ==
    IF i = 0 THEN 0 ELSE IF s[i] = "/" THEN i ELSE LastSlash(s, i - 1)

\* g_path_get_basename(path), for paths that do not end in "/"
Basename(path) == SubSeq(path, LastSlash(path, Len(path)) + 1, Len(path))

\* OUR_PREFIX
OUR_PREFIX == <<"g", "a", "m", "m", "a", "-", "t", "o", "o", "l", "-">>

\* the decimal digits of n >= 0, most significant first
RECURSIVE NatDigits(_)
NatDigits(n) ==
    IF n < 10 THEN <<DigitChar(n)>>
    ELSE NatDigits(n \div 10) \o <<DigitChar(n % 10)>>

\* k zeros
RECURSIVE Zeros(_)
Zeros(k) == IF k <= 0 THEN <<>> ELSE <<"0">> \o Zeros(k - 1)

\* printf("%d", n)
FmtD(n) == IF n < 0 THEN <<"-">> \o NatDigits(0 - n) ELSE NatDigits(n)

\* printf("%03d", n): a minimum width of 3, the sign counted in the width,
\* and nothing cut when the number is wider
Fmt03d(n) ==
    IF n < 0
    THEN <<"-">> \o Zeros(2 - Len(NatDigits(0 - n))) \o NatDigits(0 - n)
    ELSE Zeros(3 - Len(NatDigits(n))) \o NatDigits(n)

(***************************************************************************)
(* Single-precision arithmetic                                             *)
(***************************************************************************)
Pow2(k) == 2 ^ k

Abs(x) == IF x < 0 THEN 0 - x ELSE x

\* x / d rounded to the nearest integer, ties to even (x >= 0, d > 0)
RoundDivEven(x, d) ==
    LET q == x \div d
        r == x % d
    IN  IF 2 * r > d THEN q + 1
        ELSE IF 2 * r < d THEN q
        ELSE IF q % 2 = 0 THEN q ELSE q + 1

\* the j with 2^j <= num/den < 2^(j+1), searched downwards from j (num > 0)
RECURSIVE Log2Floor(_, _, _)
Log2Floor(num, den, j) ==
    IF j >= 0
    THEN IF num >= den * Pow2(j) THEN j ELSE Log2Floor(num, den, j - 1)
    ELSE IF num * Pow2(0 - j) >= den THEN j ELSE Log2Floor(num, den, j - 1)

\* a mantissa that rounding carried up to 2^24 is renormalised
Norm(m, e) == IF m = Pow2(24) THEN <<Pow2(23), e + 1>> ELSE <<m, e>>

\* the gfloat nearest to sign * num / den (num >= 0, den > 0, value < 2^14)
ToFloat(sign, num, den) ==
    IF num = 0 THEN <<0, 0>>
    ELSE LET j == Log2Floor(num, den, 13)
             m == IF j <= 23
                  THEN RoundDivEven(num * Pow2(23 - j), den)
                  ELSE RoundDivEven(num, den * Pow2(j - 23))
             n == Norm(m, j - 23)
         IN  <<sign * n[1], n[2]>>

\* f * 100.0f in single precision: the exact product is 25 m * 2^(e+2)
\* and is rounded to 24 bits
RECURSIVE Round24(_, _, _)
Round24(x, e, k) ==
    IF x < Pow2(24 + k) THEN Norm(RoundDivEven(x, Pow2(k)), e + k)
    ELSE Round24(x, e, k + 1)

MulF100(f) ==
    IF f[1] = 0 THEN <<0, 0>>
    ELSE LET n == Round24(25 * Abs(f[1]), f[2] + 2, 0)
         IN  <<(IF f[1] < 0 THEN 0 - 1 ELSE 1) * n[1], n[2]>>

\* (int)f: the fraction is dropped, towards zero
TruncInt(f) ==
    LET a == IF f[2] >= 0 THEN Abs(f[1]) * Pow2(f[2])
             ELSE IF 0 - f[2] > 30 THEN 0
             ELSE Abs(f[1]) \div Pow2(0 - f[2])
    IN  IF f[1] < 0 THEN 0 - a ELSE a

\* is the gfloat f > 0
FloatPositive(f) == f[1] > 0

(***************************************************************************)
(* Number parsing: scanf's %d, atoi, g_ascii_strtod                        *)
(***************************************************************************)
RECURSIVE SkipWs(_, _)
SkipWs(s, i) == IF i <= Len(s) /\ IsSpace(s[i]) THEN SkipWs(s, i + 1) ELSE i

\* the digits from position i on, at most left of them:
\* <<value, next position, number of digits read>>
RECURSIVE ScanDigits(_, _, _, _, _)
ScanDigits(s, i, left, acc, n) ==
    IF left > 0 /\ i <= Len(s) /\ s[i] \in Digits
    THEN ScanDigits(s, i + 1, left - 1, 10 * acc + DigitVal(s[i]), n + 1)
    ELSE <<acc, i, n>>

\* one %d conversion of scanf at position i with field width w: white space
\* is skipped and is not counted in the width, a sign is accepted and is
\* counted, and at least one digit must follow
ScanInt(s, i, w) ==
    LET j    == SkipWs(s, i)
        sgn  == j <= Len(s) /\ s[j] \in {"-", "+"} /\ w > 0
        neg  == sgn /\ s[j] = "-"
        k    == IF sgn THEN j + 1 ELSE j
        d    == ScanDigits(s, k, IF sgn THEN w - 1 ELSE w, 0, 0)
    IN  [ok |-> d[3] > 0, val |-> IF neg THEN 0 - d[1] ELSE d[1], next |-> d[2]]

\* atoi(s): 0 when s does not start with a number
Atoi(s) ==
    LET r == ScanInt(s, 1, Len(s) + 1) IN IF r.ok THEN r.val ELSE 0

RECURSIVE Pow10(_)
Pow10(k) == IF k = 0 THEN 1 ELSE 10 * Pow10(k - 1)

\* g_ascii_strtod(s, NULL) converted to gfloat: the longest prefix of the form
\* [blanks][sign]digits[.digits]; 0 when there is no digit
StrToF(s) ==
    LET j    == SkipWs(s, 1)
        sgn  == j <= Len(s) /\ s[j] \in {"-", "+"}
        neg  == sgn /\ s[j] = "-"
        k    == IF sgn THEN j + 1 ELSE j
        ip   == ScanDigits(s, k, Len(s), 0, 0)
        dot  == ip[2] <= Len(s) /\ s[ip[2]] = "."
        fp   == IF dot THEN ScanDigits(s, ip[2] + 1, Len(s), 0, 0)
                ELSE <<0, ip[2], 0>>
    IN  IF ip[3] + fp[3] = 0 THEN <<0, 0>>
        ELSE ToFloat(IF neg THEN 0 - 1 ELSE 1,
                     ip[1] * Pow10(fp[3]) + fp[1], Pow10(fp[3]))

\* the position of the first ":" of s at or after i, 0 when there is none
RECURSIVE FindColon(_, _)
FindColon(s, i) ==
    IF i > Len(s) THEN 0 ELSE IF s[i] = ":" THEN i ELSE FindColon(s, i + 1)

\* g_strsplit(s, ":", max): at most max pieces, the last one taking the
\* rest; the empty string gives no piece
RECURSIVE StrSplit(_, _)
StrSplit(s, max) ==
    LET c == FindColon(s, 1)
    IN  IF max <= 1 \/ c = 0 THEN <<s>>
        ELSE <<SubSeq(s, 1, c - 1)>>
               \o StrSplit(SubSeq(s, c + 1, Len(s)), max - 1)

GStrSplit(s, max) == IF s = <<>> THEN <<>> ELSE StrSplit(s, max)

(***************************************************************************)
(* The profile file name                                                   *)
(***************************************************************************)
\* handle_apply_mode: the three gamma fields of the name
GammaField(f) == TruncInt(MulF100(f))

\* handle_apply_mode: new_basename
NewBasename(gamma, temperature, uuid_str) ==
    OUR_PREFIX \o <<"g">> \o Fmt03d(GammaField(gamma[1]))
      \o Fmt03d(GammaField(gamma[2])) \o Fmt03d(GammaField(gamma[3]))
      \o <<"t">> \o FmtD(temperature) \o <<"-">> \o uuid_str
      \o <<".", "i", "c", "c">>

\* handle_info_mode: sscanf(basename, "gamma-tool-g%3d%3d%3dt%d-", ...):
\* the number of items assigned and the items
SscanfName(basename) ==
    LET lit == OUR_PREFIX \o <<"g">>
        r   == ScanInt(basename, Len(lit) + 1, 3)
        g   == ScanInt(basename, r.next, 3)
        b   == ScanInt(basename, g.next, 3)
        tch == b.next <= Len(basename) /\ basename[b.next] = "t"
        t   == ScanInt(basename, b.next + 1, Len(basename) + 1)
    IN  IF ~HasPrefix(basename, lit) \/ ~r.ok THEN [items |-> 0]
        ELSE IF ~g.ok THEN [items |-> 1]
        ELSE IF ~b.ok THEN [items |-> 2]
        ELSE IF ~tch \/ ~t.ok THEN [items |-> 3]
        ELSE [items |-> 4, r |-> r.val, g |-> g.val, b |-> b.val,
              temp |-> t.val]

\* handle_info_mode: what is printed for a profile file name
\* (NoFilename stands for a NULL file name)
NoFilename == <<"(", "n", "u", "l", "l", ")">>

InfoReport(profile_filename) ==
    IF profile_filename = NoFilename THEN [kind |-> "no_filename"]
    ELSE LET basename == Basename(profile_filename)
             sc       == SscanfName(basename)
         IN  IF ~HasPrefix(basename, OUR_PREFIX) THEN [kind |-> "not_ours"]
             ELSE IF sc.items = 4
                  THEN [kind |-> "params", r |-> sc.r, g |-> sc.g,
                        b |-> sc.b, temp |-> sc.temp]
                  ELSE [kind |-> "unparseable"]

\* is_our_profile without the test of the prefix
IsOurProfile_NoPrefixTest(profile_filename) == profile_filename # NoFilename

\* handle_remove_mode, handle_apply_mode: is_our_profile
IsOurProfile(profile_filename) ==
    /\ profile_filename # NoFilename
    /\ HasPrefix(Basename(profile_filename), OUR_PREFIX)


(***************************************************************************)
(* parse_arguments                                                         *)
(***************************************************************************)
FlagR  == <<"-", "r">>
FlagI  == <<"-", "i">>
FlagG  == <<"-", "g">>
FlagGe == <<"-", "g", "=">>
FlagT  == <<"-", "t">>
FlagTe == <<"-", "t", "=">>

\* the gfloat 1.0f and the string "1.0"
One == ToFloat(1, 1, 1)
DefaultGammaStr == <<"1", ".", "0">>

\* the loop over argv[1..argc-1]; argv[0] is element 1 of the sequence
RECURSIVE ParseLoop(_, _, _)
ParseLoop(argv, i, st) ==
    IF i > Len(argv) THEN st
    ELSE LET a    == argv[i]
             more == i + 1 <= Len(argv)
         IN  IF a = FlagR
             THEN ParseLoop(argv, i + 1, [st EXCEPT !.remove_profile = TRUE])
             ELSE IF a = FlagI
             THEN ParseLoop(argv, i + 1, [st EXCEPT !.info_mode = TRUE])
             ELSE IF HasPrefix(a, FlagG)
             THEN IF a = FlagG /\ more
                  THEN ParseLoop(argv, i + 2, [st EXCEPT !.gamma_str = argv[i + 1]])
                  ELSE IF HasPrefix(a, FlagGe)
                  THEN ParseLoop(argv, i + 1,
                                 [st EXCEPT !.gamma_str = SubSeq(a, 4, Len(a))])
                  ELSE ParseLoop(argv, i + 1, st)
             ELSE IF HasPrefix(a, FlagT)
             THEN IF a = FlagT /\ more
                  THEN ParseLoop(argv, i + 2,
                                 [st EXCEPT !.temperature = Atoi(argv[i + 1])])
                  ELSE IF HasPrefix(a, FlagTe)
                  THEN ParseLoop(argv, i + 1,
                           [st EXCEPT !.temperature = Atoi(SubSeq(a, 4, Len(a)))])
                  ELSE ParseLoop(argv, i + 1, st)
             ELSE ParseLoop(argv, i + 1, st)

\* the gamma triple of a -g value: one number for all channels, three
\* numbers R:G:B, and the default 1.0 when there are two pieces or none
GammaOf(gamma_str) ==
    LET parts == GStrSplit(gamma_str, 3)
    IN  IF Len(parts) = 1
        THEN <<StrToF(parts[1]), StrToF(parts[1]), StrToF(parts[1])>>
        ELSE IF Len(parts) = 3
        THEN <<StrToF(parts[1]), StrToF(parts[2]), StrToF(parts[3])>>
        ELSE <<One, One, One>>

\* parse_arguments: the AppArgs, and whether the usage text and exit(1)
\* are reached
ParseArgs(argv) ==
    LET st == ParseLoop(argv, 2,
                        [gamma_str |-> DefaultGammaStr, temperature |-> 6500,
                         remove_profile |-> FALSE, info_mode |-> FALSE])
    IN  [gamma |-> GammaOf(st.gamma_str), temperature |-> st.temperature,
         remove_profile |-> st.remove_profile, info_mode |-> st.info_mode,
         usage |-> Len(argv) < 2]


(***************************************************************************)
(* The run: main and the per-device handlers                               *)
(***************************************************************************)
\* the number of devices the service knows
NumDevices == 2

\* the number of polls that fit before the deadline of the registration wait
\* (TIMEOUT_SECONDS of polls 10 ms apart, scaled down)
MaxPolls == 2

Devices == 1..NumDevices

\* g_build_filename(g_get_user_data_dir(), "icc", NULL)
IccDir == <<"/", "u", "/", "i", "c", "c">>

\* file names of the profiles a device can have when the run starts: one
\* written by an earlier run of the tool, one of another origin
OwnedName(d) ==
    IccDir \o <<"/">> \o OUR_PREFIX
      \o <<"g", "0", "8", "0", "0", "8", "0", "0", "8", "0">>
      \o <<"t", "5", "5", "0", "0", "-">> \o <<DigitChar(d)>>
      \o <<".", "i", "c", "c">>
ForeignName(d) ==
    <<"/", "s", "/", "v">> \o <<DigitChar(d)>> \o <<".", "i", "c", "c">>

\* the standard profile that create_and_set_sRGB_profile looks up
SRGBName == <<"/", "s", "/", "s", "R", "G", "B", ".", "i", "c", "c">>

\* a token that is the one in the name of device 1's tool-owned profile
UuidStringRandom_Stale(n) == <<"1">>

\* g_uuid_string_random(): a string that no earlier call returned; the
\* n-th call of the run returns "u" followed by n
UuidStringRandom(n) == <<"u">> \o NatDigits(n)

\* the command lines of the model: one per mode
ArgvSet ==
    { <<<<"g", "t">>>>,
      <<<<"g", "t">>, FlagI>>,
      <<<<"g", "t">>, FlagR>>,
      <<<<"g", "t">>, FlagT, <<"5", "5", "0", "0">>>> }

\* command lines with a -g value
GammaArgvSet ==
    { <<<<"g", "t">>, FlagG, <<"0", ".", "8">>, <<"-", "t", "=", "5", "5", "0", "0">>>>,
      <<<<"g", "t">>, FlagG, <<"0", ".", "8", ":", "1", ".", "0", ":", "1", ".", "2">>>>,
      <<<<"g", "t">>, FlagG, <<"0", ".", "5", "9">>>>,
      <<<<"g", "t">>, FlagG, <<"0">>>>,
      <<<<"g", "t">>, <<"-", "g", "=", "1", "0">>>>,
      <<<<"g", "t">>, FlagG, <<"-", "0", ".", "5", ":", "1", ":", "1">>>>,
      <<<<"g", "t">>, FlagG, <<"x">>>>,
      <<<<"g", "t">>, FlagG, <<"0", ".", "8", ":", "1", ".", "2">>>>,
      <<<<"g", "t">>, FlagI, FlagG, <<"0">>>>,
      <<<<"g", "t">>, <<"-", "g", "=", "1", "0">>, FlagR>>,
      <<<<"g", "t">>, FlagG, <<"0", ".", "8">>, FlagT, <<"0">>>> }

\* the profile lists a display can start with (first = default)
ProfileLists(d) ==
    { <<>>, <<OwnedName(d)>>, <<ForeignName(d)>>,
      <<OwnedName(d), ForeignName(d)>>, <<NoFilename>> }

None == <<>>

\* nothing printed yet
NoReport == [kind |-> "none"]

VARIABLES
    argv,            \* the command line, argv[0] first
    pc,              \* the position of the program
    args,            \* AppArgs
    exit_status,     \* the exit status, -1 while the program runs
    devKind,         \* service: the kind of each device
    devProfiles,     \* service: the profiles of each device, default first
    files,           \* the file system: the paths that exist
    display_devices, \* main: the list of connected display devices
    l,               \* main: the position in display_devices
    base_profile,    \* main: the base profile of the current device
    is_our_profile,  \* handle_apply_mode: is the base profile tool-owned
    profile_data,    \* handle_apply_mode: the ICC data being built
    new_path,        \* handle_apply_mode: the path of the new file
    new_profile,     \* handle_apply_mode: the detected profile, or None
    polls,           \* handle_apply_mode: polls made in the wait
    error,           \* handle_apply_mode: the GError* variable
    used_uuids,      \* the number of uuids drawn so far
    calls,           \* the calls made for the current device, in order
    processed,       \* the devices whose loop iteration has begun
    report,          \* what was printed last
    devProfiles0     \* history: the profiles of each device when main started

vars == <<argv, pc, args, exit_status, devKind, devProfiles, files,
          display_devices, l, base_profile, is_our_profile, profile_data,
          new_path, new_profile, polls, error, used_uuids, calls, processed,
          report, devProfiles0>>

svcVars   == <<devKind, devProfiles, files, devProfiles0>>
applyVars == <<is_our_profile, profile_data, new_path, new_profile, polls,
               error, used_uuids>>

\* the files behind a profile list
FilesOf(list) == {list[i] : i \in 1..Len(list)} \ {NoFilename}

NoData == [uuid |-> None, vcgt |-> None]

\* the state when main starts, for a command line of argvs and device
\* kinds of kinds
InitWith(argvs, kinds) ==
    /\ argv \in argvs
    /\ pc = "start"
    /\ args = ParseArgs(<<>>)
    /\ exit_status = 0 - 1
    /\ devKind \in kinds
    /\ devProfiles \in [Devices -> UNION {ProfileLists(d) : d \in Devices}]
    /\ \A d \in Devices :
          devProfiles[d] \in
              (IF devKind[d] = "display" THEN ProfileLists(d) ELSE {<<>>})
    /\ files = {SRGBName} \cup UNION {FilesOf(devProfiles[d]) : d \in Devices}
    /\ display_devices = <<>>
    /\ l = 0
    /\ base_profile = None
    /\ is_our_profile = FALSE
    /\ profile_data = NoData
    /\ new_path = None
    /\ new_profile = None
    /\ polls = 0
    /\ error = "NULL"
    /\ used_uuids = 0
    /\ calls = <<>>
    /\ processed = <<>>
    /\ report = NoReport
    /\ devProfiles0 = devProfiles

Init == InitWith(ArgvSet, [Devices -> {"display", "printer"}])

\* a run with a -g value on a service whose only display is device 1
InitGamma ==
    InitWith(GammaArgvSet,
             {[d \in Devices |-> IF d = 1 THEN "display" ELSE "printer"]})

\* command lines with nothing, an unknown flag, a flag that lacks its
\* value, and well-formed ones
CliArgvSet ==
    { <<<<"g", "t">>>>,
      <<<<"g", "t">>, <<"-", "x">>>>,
      <<<<"g", "t">>, FlagG>>,
      <<<<"g", "t">>, FlagT>>,
      <<<<"g", "t">>, FlagI, <<"-", "x">>>>,
      <<<<"g", "t">>, FlagI>>,
      <<<<"g", "t">>, FlagR>>,
      <<<<"g", "t">>, FlagG, <<"0", ".", "8">>>> }

InitCli ==
    InitWith(CliArgvSet,
             {[d \in Devices |-> IF d = 1 THEN "display" ELSE "printer"]})

\* the device the loop of main is at
Device == display_devices[l]

\* one call: the device it is made for, the function that makes it, the
\* operation, the profile or path it is about and whether it succeeded
Call(d, fn, op, arg, ok) ==
    [dev |-> d, fn |-> fn, op |-> op, arg |-> arg, ok |-> ok]

\* main, lines 44-46
ParseArguments ==
    /\ pc = "start"
    /\ args' = ParseArgs(argv)
    /\ IF ParseArgs(argv).usage
       THEN pc' = "exit" /\ exit_status' = 1 /\ report' = [kind |-> "usage"]
       ELSE pc' = "connect" /\ UNCHANGED <<exit_status, report>>
    /\ UNCHANGED <<argv, svcVars, display_devices, l, base_profile, applyVars,
                   calls, processed>>

\* main, lines 49-58: cd_client_connect_sync
ClientConnect(ok) ==
    /\ pc = "connect"
    /\ IF ok
       THEN pc' = "enumerate" /\ UNCHANGED <<exit_status, report>>
       ELSE /\ pc' = "exit"
            /\ exit_status' = 1
            /\ report' = [kind |-> "connect_failed"]
    /\ UNCHANGED <<argv, args, svcVars, display_devices, l, base_profile,
                   applyVars, calls, processed>>

\* the members of the set S of devices in increasing order
RECURSIVE InOrder(_, _)
InOrder(S, d) ==
    IF d > NumDevices THEN <<>>
    ELSE (IF d \in S THEN <<d>> ELSE <<>>) \o InOrder(S, d + 1)

\* get_display_devices and main, lines 61-66: NULL when the enumeration
\* fails; otherwise the displays among the devices that connect
GetDisplayDevices(ok, connected) ==
    /\ pc = "enumerate"
    /\ LET list == IF ok
                   THEN InOrder({d \in connected : devKind[d] = "display"}, 1)
                   ELSE <<>>
       IN  /\ display_devices' = list
           /\ IF list = <<>>
              THEN pc' = "exit" /\ exit_status' = 0 /\ l' = l
              ELSE pc' = "device" /\ l' = 1 /\ UNCHANGED exit_status
    /\ report' = IF ok THEN report ELSE [kind |-> "get_devices_failed"]
    /\ UNCHANGED <<argv, args, svcVars, base_profile, applyVars, calls,
                   processed>>

\* main, lines 114-119: the loop is over
MainReturn ==
    /\ pc = "device"
    /\ l > Len(display_devices)
    /\ pc' = "exit"
    /\ exit_status' = 0
    /\ UNCHANGED <<argv, args, svcVars, display_devices, l, base_profile,
                   applyVars, calls, processed, report>>

\* main, lines 69-80: the first profile of the device is the base
DeviceGetProfiles ==
    /\ pc = "device"
    /\ l <= Len(display_devices)
    /\ IF devProfiles[Device] # <<>>
       THEN pc' = "base_connect" /\ base_profile' = devProfiles[Device][1]
       ELSE pc' = "srgb" /\ base_profile' = None
    /\ report' = NoReport
    /\ processed' = Append(processed, Device)
    /\ calls' = <<>>
    /\ UNCHANGED <<argv, args, exit_status, svcVars, display_devices, l,
                   applyVars>>

\* the profile list after cd_device_add_profile_sync
AddProfile(list, p) == list \o <<p>>

\* the profile list after cd_device_make_profile_default_sync
RECURSIVE Without(_, _)
Without(list, p) ==
    IF list = <<>> THEN <<>>
    ELSE (IF Head(list) = p THEN <<>> ELSE <<Head(list)>>)
           \o Without(Tail(list), p)

MakeDefault(list, p) == <<p>> \o Without(list, p)

\* the profile list after cd_device_remove_profile_sync
RemoveProfile(list, p) == Without(list, p)

InList(list, p) == \E i \in 1..Len(list) : list[i] = p

\* the calls of create_and_set_sRGB_profile up to the one that fails
SRGBCalls(d, n, failed) ==
    SubSeq(<<Call(d, "srgb", "find_by_filename", SRGBName, failed # 1),
             Call(d, "srgb", "profile_connect", SRGBName, failed # 2),
             Call(d, "srgb", "add_profile", SRGBName, failed # 3),
             Call(d, "srgb", "make_default", SRGBName, failed # 4)>>, 1, n)

\* create_and_set_sRGB_profile and main, lines 81-90: failed = 0 when all
\* four calls succeed, else the number of the call that fails
CreateAndSetSRGB(failed) ==
    /\ pc = "srgb"
    /\ calls' = calls \o SRGBCalls(Device, IF failed = 0 THEN 4 ELSE failed,
                                  failed)
    /\ devProfiles' =
         [devProfiles EXCEPT ![Device] =
            IF failed = 0 THEN MakeDefault(AddProfile(@, SRGBName), SRGBName)
            ELSE IF failed = 4 THEN AddProfile(@, SRGBName)
            ELSE @]
    /\ IF failed = 0
       THEN pc' = "base_connect" /\ base_profile' = SRGBName /\ l' = l
       ELSE pc' = "device" /\ base_profile' = None /\ l' = l + 1
    /\ UNCHANGED <<argv, args, exit_status, devProfiles0, devKind,
                   files, display_devices,
                   applyVars, processed, report>>

\* main, lines 94-99: cd_profile_connect_sync(base_profile)
BaseConnect(ok) ==
    /\ pc = "base_connect"
    /\ calls' = Append(calls, Call(Device, "main", "profile_connect",
                                    base_profile, ok))
    /\ IF ok
       THEN /\ pc' = IF args.info_mode THEN "info"
                     ELSE IF args.remove_profile THEN "remove" ELSE "apply"
            /\ UNCHANGED <<l, base_profile>>
       ELSE /\ pc' = "device"
            /\ l' = l + 1
            /\ base_profile' = None
    /\ UNCHANGED <<argv, args, exit_status, svcVars, display_devices,
                   applyVars, processed, report>>

\* handle_info_mode and main, line 111
HandleInfoMode ==
    /\ pc = "info"
    /\ report' = InfoReport(base_profile)
    /\ pc' = "device"
    /\ l' = l + 1
    /\ base_profile' = None
    /\ UNCHANGED <<argv, args, exit_status, svcVars, display_devices,
                   applyVars, calls, processed>>

\* lines 279 and 325: profile_filename, the file of the device's default
\* profile
ProfileFilename_New == new_path
ProfileFilename == base_profile

\* lines 296-301 and 405-410: remove(profile_filename) stands in the branch
\* of a detach that succeeded
RemoveFile_Always(fs, detached, deleted) ==
    IF deleted THEN fs \ {ProfileFilename} ELSE fs
RemoveFile(fs, detached, deleted) ==
    IF detached /\ deleted THEN fs \ {ProfileFilename} ELSE fs

\* handle_remove_mode and main, line 111
HandleRemoveMode(detached, deleted) ==
    /\ pc = "remove"
    /\ IF IsOurProfile(base_profile)
       THEN IF detached
            THEN /\ devProfiles' = [devProfiles EXCEPT
                                      ![Device] = RemoveProfile(@, base_profile)]
                 /\ files' = RemoveFile(files, detached, deleted)
                 /\ calls' = calls \o
                      <<Call(Device, "remove", "remove_profile", base_profile, TRUE),
                        Call(Device, "remove", "unlink", base_profile, deleted)>>
                 /\ report' = [kind |-> "removed"]
            ELSE /\ calls' = Append(calls, Call(Device, "remove", "remove_profile",
                                                base_profile, FALSE))
                 /\ report' = [kind |-> "remove_failed"]
                 /\ files' = RemoveFile(files, detached, deleted)
                 /\ UNCHANGED devProfiles
       ELSE /\ report' = [kind |-> "not_created_by_this_tool"]
            /\ UNCHANGED <<devProfiles, files, calls>>
    /\ pc' = "device"
    /\ l' = l + 1
    /\ base_profile' = None
    /\ UNCHANGED <<argv, args, exit_status, devProfiles0, devKind,
                   display_devices,
                   applyVars, processed>>


(***************************************************************************)
(* handle_apply_mode, step by step                                         *)
(***************************************************************************)
\* the locals of handle_apply_mode are dropped and the loop goes on
\* (lines 416-423 and main, line 111)
ApplyReturn ==
    /\ pc' = "device"
    /\ l' = l + 1
    /\ base_profile' = None
    /\ is_our_profile' = FALSE
    /\ profile_data' = NoData
    /\ new_path' = None
    /\ new_profile' = None
    /\ polls' = 0
    /\ error' = "NULL"

\* lines 325-344: is_our_profile and cd_profile_load_icc
ApplyLoadIcc(ok) ==
    /\ pc = "apply"
    /\ calls' = Append(calls, Call(Device, "apply", "load_icc", base_profile, ok))
    /\ IF ok
       THEN /\ pc' = "stamp"
            /\ is_our_profile' = IsOurProfile(base_profile)
            /\ UNCHANGED <<l, base_profile, profile_data, new_path,
                           new_profile, polls, error>>
            /\ report' = report
       ELSE /\ ApplyReturn
            /\ report' = [kind |-> "load_failed"]
    /\ UNCHANGED <<argv, args, exit_status, svcVars, display_devices,
                   used_uuids, processed>>

\* line 448: cd_color_get_blackbody_rgb_full is a function of the
\* temperature alone; colord's routine returns FALSE for a temperature
\* below 1000 K or above 10000 K
BlackbodyOk(color_temperature) == color_temperature \in 1000..10000

\* generate_vcgt: the ramp is computed from the gamma and the temperature
\* it is given, whatever they are.  The result of
\* cd_color_get_blackbody_rgb_full (line 448) is not looked at, a failure of
\* cd_icc_set_vcgt (lines 458-461) is warned about, and the function
\* returns nothing: the caller sees neither outcome
GenerateVcgt(gamma, color_temperature, set_ok) ==
    [gamma |-> gamma, color_temperature |-> color_temperature,
     blackbody_ok |-> BlackbodyOk(color_temperature), set_ok |-> set_ok]

\* lines 346-366: the description, the uuid, the ramp and the new path
ApplyStamp(set_ok) ==
    /\ pc = "stamp"
    /\ used_uuids' = used_uuids + 1
    /\ LET uuid_str == UuidStringRandom(used_uuids')
       IN  /\ profile_data' =
                [uuid |-> uuid_str,
                 vcgt |-> GenerateVcgt(args.gamma, args.temperature,
                                       set_ok)]
           /\ new_path' = IccDir \o <<"/">>
                 \o NewBasename(args.gamma, args.temperature, uuid_str)
    /\ pc' = "save"
    /\ UNCHANGED <<argv, args, exit_status, svcVars, display_devices, l,
                   base_profile, is_our_profile, new_profile, polls, error,
                   calls, processed, report>>

\* lines 372-377: cd_icc_save_file
ApplySave(ok) ==
    /\ pc = "save"
    /\ calls' = Append(calls, Call(Device, "apply", "save_file", new_path, ok))
    /\ IF ok
       THEN /\ files' = files \cup {new_path}
            /\ pc' = "poll"
            /\ UNCHANGED <<error, report>>
       ELSE /\ error' = "freed"
            /\ pc' = "cleanup"
            /\ report' = [kind |-> "save_failed"]
            /\ UNCHANGED files
    /\ UNCHANGED <<argv, args, exit_status, devProfiles0, devKind,
                   devProfiles,
                   display_devices, l, base_profile, is_our_profile,
                   profile_data, new_path, new_profile, polls, used_uuids,
                   processed>>

\* lines 378-384 without the break of line 380
ApplyPoll_NoBreak(found) ==
    /\ pc = "poll"
    /\ polls < MaxPolls
    /\ calls' = Append(calls, Call(Device, "apply", "find_by_filename",
                                    new_path, found))
    /\ polls' = polls + 1
    /\ new_profile' = IF found THEN new_path ELSE None
    /\ pc' = "poll"
    /\ UNCHANGED <<argv, args, exit_status, svcVars, display_devices, l,
                   base_profile, is_our_profile, profile_data, new_path,
                   error, used_uuids, processed, report>>

\* lines 378-384: one round of the wait while the deadline has not passed
ApplyPoll(found) ==
    /\ pc = "poll"
    /\ polls < MaxPolls
    /\ calls' = Append(calls, Call(Device, "apply", "find_by_filename",
                                    new_path, found))
    /\ polls' = polls + 1
    /\ IF found
       THEN new_profile' = new_path /\ pc' = "connect_new"
       ELSE new_profile' = None /\ pc' = "poll"
    /\ UNCHANGED <<argv, args, exit_status, svcVars, display_devices, l,
                   base_profile, is_our_profile, profile_data, new_path,
                   error, used_uuids, processed, report>>

\* lines 378, 397-399: the deadline has passed
ApplyTimeout ==
    /\ pc = "poll"
    /\ polls >= MaxPolls
    /\ pc' = "cleanup"
    /\ report' = [kind |-> "timed_out"]
    /\ UNCHANGED <<argv, args, exit_status, svcVars, display_devices, l,
                   base_profile, applyVars, calls, processed>>

\* lines 386-387, 394-396: cd_profile_connect_sync(new_profile)
ApplyConnectNew(ok) ==
    /\ pc = "connect_new"
    /\ calls' = Append(calls, Call(Device, "apply", "profile_connect",
                                    new_profile, ok))
    /\ IF ok
       THEN pc' = "add" /\ UNCHANGED <<error, report>>
       ELSE /\ pc' = "cleanup"
            /\ error' = "freed"
            /\ report' = [kind |-> "connect_new_failed"]
    /\ UNCHANGED <<argv, args, exit_status, svcVars, display_devices, l,
                   base_profile, is_our_profile, profile_data, new_path,
                   new_profile, polls, used_uuids, processed>>

\* lines 389-390: cd_device_add_profile_sync, its failure only warned about
ApplyAddProfile(ok) ==
    /\ pc = "add"
    /\ calls' = Append(calls, Call(Device, "apply", "add_profile", new_profile, ok))
    /\ devProfiles' = [devProfiles EXCEPT
                         ![Device] = IF ok THEN AddProfile(@, new_profile) ELSE @]
    /\ report' = IF ok THEN report ELSE [kind |-> "add_failed"]
    /\ pc' = "make_default"
    /\ UNCHANGED <<argv, args, exit_status, devProfiles0, devKind,
                   files, display_devices,
                   l, base_profile, applyVars, processed>>

\* lines 392-393: cd_device_make_profile_default_sync, its failure only
\* warned about; the service refuses a profile the device does not have
ApplyMakeDefault(ok) ==
    /\ pc = "make_default"
    /\ ok => InList(devProfiles[Device], new_profile)
    /\ calls' = Append(calls, Call(Device, "apply", "make_default",
                                    new_profile, ok))
    /\ devProfiles' = [devProfiles EXCEPT
                         ![Device] = IF ok THEN MakeDefault(@, new_profile) ELSE @]
    /\ report' = IF ok THEN report ELSE [kind |-> "make_default_failed"]
    /\ pc' = "cleanup"
    /\ UNCHANGED <<argv, args, exit_status, devProfiles0, devKind,
                   files, display_devices,
                   l, base_profile, applyVars, processed>>

\* line 403 without the test of new_profile
CleanupNeeded_OursOnly == is_our_profile

\* line 403: is there an old profile to remove
CleanupNeeded == is_our_profile /\ new_profile # None

\* lines 403-414 with error == NULL: the old profile is detached and its
\* file deleted
ApplyRemoveOld(detached, deleted) ==
    /\ pc = "cleanup"
    /\ CleanupNeeded
    /\ error = "NULL"
    /\ IF detached
       THEN /\ devProfiles' = [devProfiles EXCEPT
                                 ![Device] = RemoveProfile(@, base_profile)]
            /\ files' = RemoveFile(files, detached, deleted)
            /\ calls' = calls \o
                 <<Call(Device, "apply", "remove_profile", base_profile, TRUE),
                   Call(Device, "apply", "unlink", base_profile, deleted)>>
            /\ report' = report
       ELSE /\ calls' = Append(calls, Call(Device, "apply", "remove_profile",
                                           base_profile, FALSE))
            /\ report' = [kind |-> "remove_old_failed"]
            /\ files' = RemoveFile(files, detached, deleted)
            /\ UNCHANGED devProfiles
    /\ ApplyReturn
    /\ UNCHANGED <<argv, args, exit_status, devProfiles0, devKind,
                   display_devices,
                   used_uuids, processed>>

\* lines 403-414 reached with error freed at line 396 and not reset: the
\* call gets a dangling GError.  It may detach the profile (and the file is
\* then deleted), or return FALSE; after FALSE, line 411 reads the freed
\* error and line 412 frees it again, which the program may survive or not
ApplyRemoveOldDangling(detached, deleted, crash) ==
    /\ pc = "cleanup"
    /\ CleanupNeeded
    /\ error = "freed"
    /\ IF detached
       THEN /\ devProfiles' = [devProfiles EXCEPT
                                 ![Device] = RemoveProfile(@, base_profile)]
            /\ files' = RemoveFile(files, detached, deleted)
            /\ calls' = calls \o
                 <<Call(Device, "apply", "remove_profile", base_profile, TRUE),
                   Call(Device, "apply", "unlink", base_profile, deleted)>>
            /\ ApplyReturn
       ELSE /\ calls' = Append(calls, Call(Device, "apply", "remove_profile",
                                           base_profile, FALSE))
            /\ files' = RemoveFile(files, detached, deleted)
            /\ UNCHANGED devProfiles
            /\ IF crash
               THEN /\ pc' = "crashed"
                    /\ UNCHANGED <<l, base_profile, is_our_profile,
                                   profile_data, new_path, new_profile, polls,
                                   error>>
               ELSE ApplyReturn
    /\ report' = report
    /\ UNCHANGED <<argv, args, exit_status, devProfiles0, devKind,
                   display_devices,
                   used_uuids, processed>>

\* line 403: nothing to clean up
ApplySkipCleanup ==
    /\ pc = "cleanup"
    /\ ~CleanupNeeded
    /\ ApplyReturn
    /\ UNCHANGED <<argv, args, exit_status, svcVars, display_devices,
                   used_uuids, calls, processed, report>>

\* handle_apply_mode, one step of it
HandleApplyMode ==
    \/ \E ok \in BOOLEAN : ApplyLoadIcc(ok)
    \/ \E set_ok \in BOOLEAN : ApplyStamp(set_ok)
    \/ \E ok \in BOOLEAN : ApplySave(ok)
    \/ \E found \in BOOLEAN : ApplyPoll(found)
    \/ ApplyTimeout
    \/ \E ok \in BOOLEAN : ApplyConnectNew(ok)
    \/ \E ok \in BOOLEAN : ApplyAddProfile(ok)
    \/ \E ok \in BOOLEAN : ApplyMakeDefault(ok)
    \/ \E detached, deleted \in BOOLEAN : ApplyRemoveOld(detached, deleted)
    \/ \E detached, deleted, crash \in BOOLEAN :
          ApplyRemoveOldDangling(detached, deleted, crash)
    \/ ApplySkipCleanup

Next ==
    \/ ParseArguments
    \/ \E ok \in BOOLEAN : ClientConnect(ok)
    \/ \E ok \in BOOLEAN, connected \in SUBSET Devices :
          GetDisplayDevices(ok, connected)
    \/ MainReturn
    \/ DeviceGetProfiles
    \/ \E failed \in 0..4 : CreateAndSetSRGB(failed)
    \/ \E ok \in BOOLEAN : BaseConnect(ok)
    \/ HandleInfoMode
    \/ \E detached, deleted \in BOOLEAN : HandleRemoveMode(detached, deleted)
    \/ HandleApplyMode

Spec == Init /\ [][Next]_vars

SpecGamma == InitGamma /\ [][Next]_vars

SpecCli == InitCli /\ [][Next]_vars

\* handle_apply_mode runs in the one thread of the program and every call
\* it makes returns: once entered, its next step is taken
SpecWait == InitGamma /\ [][Next]_vars /\ WF_vars(HandleApplyMode)

TypeOK ==
    /\ pc \in {"start", "connect", "enumerate", "device", "srgb",
               "base_connect", "info", "remove", "apply", "stamp", "save",
               "poll", "connect_new", "add", "make_default", "cleanup",
               "exit", "crashed"}
    /\ exit_status \in {0 - 1, 0, 1}
    /\ polls \in 0..MaxPolls
    /\ error \in {"NULL", "freed"}


(***************************************************************************)
(* The file name on its own: a name is built as apply builds it and read   *)
(* as info reads it                                                        *)
(***************************************************************************)
\* gamma values and temperatures of the names built
NamerGammas == {StrToF(x) : x \in {<<"0">>, <<"0", ".", "5", "9">>, <<"0", ".", "8">>, <<"1", ".", "0">>, <<"9", ".", "9", "9">>, <<"1", "0">>, <<"-", "0", ".", "5">>}}

NamerTemperatures == {0 - 40, 0, 5500}

\* base names met by info mode
NamerNames ==
    {IccDir \o <<"/">> \o n : n \in
      {<<"g", "a", "m", "m", "a", "-", "t", "o", "o", "l", "-", "g", "0", "8", "0", "0", "8", "0", "0", "8", "0", "t", "5", "5", "0", "0", "-", "x", ".", "i", "c", "c">>,
       <<"g", "a", "m", "m", "a", "-", "t", "o", "o", "l", "-", "g", "0", "8", "0", "1", "0", "0", "1", "2", "0", "t", "-", "4", "0", "-", "x", ".", "i", "c", "c">>,
       <<"g", "a", "m", "m", "a", "-", "t", "o", "o", "l", "-", "g", " ", "8", "0", " ", "8", "0", " ", "8", "0", "t", "5", "5", "0", "0", "-", "x", ".", "i", "c", "c">>,
       <<"g", "a", "m", "m", "a", "-", "t", "o", "o", "l", "-", "g", "-", "0", "8", "+", "8", "0", "0", "8", "0", "t", "5", "5", "0", "0", "-", "x", ".", "i", "c", "c">>,
       <<"g", "a", "m", "m", "a", "-", "t", "o", "o", "l", "-", "g", "8", "0", "8", "0", "0", "8", "0", "t", "5", "5", "0", "0", "-", "x", ".", "i", "c", "c">>,
       <<"g", "a", "m", "m", "a", "-", "t", "o", "o", "l", "-", "g", "0", "8", "a", "0", "8", "0", "0", "8", "0", "t", "5", "-", "x", ".", "i", "c", "c">>,
       <<"g", "a", "m", "m", "a", "-", "t", "o", "o", "l", "-", "g", "1", "0", "0", "0", "1", "0", "0", "0", "1", "0", "0", "0", "t", "6", "5", "0", "0", "-", "x", ".", "i", "c", "c">>,
       <<"g", "a", "m", "m", "a", "-", "t", "o", "o", "l", "-", "g", "0", "8", "0", "0", "8", "0", "0", "8", "0", "x", "5", "5", "0", "0", "-", "x", ".", "i", "c", "c">>,
       <<"g", "a", "m", "m", "a", "-", "t", "o", "o", "l", "-", "x", ".", "i", "c", "c">>,
       <<"v", ".", "i", "c", "c">>}}
    \cup {NoFilename}

InitNamer ==
    /\ argv = <<<<"g", "t">>>>
    /\ pc = "namer"
    /\ args \in [gamma : NamerGammas \X NamerGammas \X NamerGammas,
                 temperature : NamerTemperatures,
                 remove_profile : {FALSE}, info_mode : {FALSE},
                 usage : {FALSE}]
    /\ exit_status = 0 - 1
    /\ devKind = [d \in Devices |-> "printer"]
    /\ devProfiles = [d \in Devices |-> <<>>]
    /\ devProfiles0 = devProfiles
    /\ files = {}
    /\ display_devices = <<>>
    /\ l = 0
    /\ base_profile = None
    /\ is_our_profile = FALSE
    /\ profile_data = NoData
    /\ new_path = None
    /\ new_profile = None
    /\ polls = 0
    /\ error = "NULL"
    /\ used_uuids = 0
    /\ calls = <<>>
    /\ processed = <<>>
    /\ report = NoReport

\* handle_apply_mode, lines 351 and 357-366: the name of the new file
NamerEncode ==
    /\ pc = "namer"
    /\ used_uuids' = used_uuids + 1
    /\ new_path' = IccDir \o <<"/">>
         \o NewBasename(args.gamma, args.temperature,
                        UuidStringRandom(used_uuids'))
    /\ pc' = "named"
    /\ UNCHANGED <<argv, args, exit_status, svcVars, display_devices, l,
                   base_profile, is_our_profile, profile_data, new_profile,
                   polls, error, calls, processed, report>>

\* handle_info_mode on the profile whose file is the one just named
NamerDecode ==
    /\ pc = "named"
    /\ base_profile' = new_path
    /\ report' = InfoReport(new_path)
    /\ pc' = "decoded"
    /\ UNCHANGED <<argv, args, exit_status, svcVars, display_devices, l,
                   applyVars, calls, processed>>

\* handle_info_mode on a profile with the file name name
NamerInfo(name) ==
    /\ pc = "namer"
    /\ base_profile' = name
    /\ report' = InfoReport(name)
    /\ pc' = "reported"
    /\ UNCHANGED <<argv, args, exit_status, svcVars, display_devices, l,
                   applyVars, calls, processed>>

NextNamer ==
    \/ NamerEncode
    \/ NamerDecode
    \/ \E name \in NamerNames : NamerInfo(name)

SpecNamer == InitNamer /\ [][NextNamer]_vars


(***************************************************************************)
(* The ramp on its own: generate_vcgt's table for a gamma and the colour   *)
(* the black-body routine returned.  Values are exact rationals: a colour  *)
(* channel is a number of quarters, a sample a number of RampUnit-ths, and *)
(* the gammas are those whose reciprocal is a whole number up to 3, for    *)
(* which pow(step, 1/gamma) is a rational                                  *)
(***************************************************************************)
N_SAMPLES == 256

\* the quotient bits of rem / m, n bits, by long division
RECURSIVE DivBits(_, _, _, _)
DivBits(rem, m, n, q) ==
    IF n = 0 THEN <<q, rem>>
    ELSE IF 2 * rem >= m THEN DivBits(2 * rem - m, m, n - 1, 2 * q + 1)
    ELSE DivBits(2 * rem, m, n - 1, 2 * q)

\* lines 440-442: 1.0f / f in single precision, rounded to nearest even
\* (f > 0)
RecipF(f) ==
    IF f[1] = Pow2(23) THEN <<Pow2(23), 0 - 46 - f[2]>>
    ELSE LET d  == DivBits(Pow2(23), f[1], 24, 0)
             up == 2 * d[2] > f[1] \/ (2 * d[2] = f[1] /\ d[1] % 2 = 1)
         IN  Norm(IF up THEN d[1] + 1 ELSE d[1], 0 - 47 - f[2])

\* line 451: step = i / (N_SAMPLES - 1), numerator and denominator
StepNum(i) == i
StepDen_N == N_SAMPLES
StepDen == N_SAMPLES - 1

\* one, in the unit of the samples: 4 * StepDen^3
RampUnit == 4 * StepDen * StepDen * StepDen

RECURSIVE IPow(_, _)
IPow(x, k) == IF k = 0 THEN 1 ELSE x * IPow(x, k - 1)

\* lines 452-454: pow(step, gamma_factor) for a whole gamma_factor up to 3,
\* over the denominator StepDen^3; pow(x, 0) is 1
PowStep(i, gamma_factor) ==
    LET k == TruncInt(gamma_factor)
    IN  IPow(StepNum(i), k) * IPow(StepDen, 3 - k)

\* line 455: glib's CLAMP(x, low, high)
Clamp_LowOnly(x, low, high) == IF x < low THEN low ELSE x
Clamp(x, low, high) ==
    IF x > high THEN high ELSE IF x < low THEN low ELSE x

\* lines 449-457: the table, one entry per i in 0..N_SAMPLES-1 (entry i is
\* element i + 1 of the sequence)
VcgtArray(gamma, temp_color) ==
    [n \in 1..N_SAMPLES |->
        [c \in 1..3 |->
            Clamp(temp_color[c] * PowStep(n - 1, RecipF(gamma[c])),
                  0, RampUnit)]]

\* gammas with a whole reciprocal
RampGammas == {StrToF(x) : x \in {<<"1", ".", "0">>, <<"0", ".", "5">>}}

\* channels of the colour of a temperature, in quarters: 0, 1/2, 1 and 5/4
RampColours == {0, 2, 4, 5}

InitRamp ==
    /\ argv = <<<<"g", "t">>>>
    /\ pc = "ramp"
    /\ args \in [gamma : RampGammas \X RampGammas \X RampGammas,
                 temperature : {5500, 6500},
                 remove_profile : {FALSE}, info_mode : {FALSE},
                 usage : {FALSE}]
    /\ exit_status = 0 - 1
    /\ devKind = [d \in Devices |-> "printer"]
    /\ devProfiles = [d \in Devices |-> <<>>]
    /\ devProfiles0 = devProfiles
    /\ files = {}
    /\ display_devices = <<>>
    /\ l = 0
    /\ base_profile = None
    /\ is_our_profile = FALSE
    /\ profile_data = NoData
    /\ new_path = None
    /\ new_profile = None
    /\ polls = 0
    /\ error = "NULL"
    /\ used_uuids = 0
    /\ calls = <<>>
    /\ processed = <<>>
    /\ report = NoReport

\* generate_vcgt with temp_color the colour the black-body routine gave
RampGenerate(temp_color) ==
    /\ pc = "ramp"
    /\ profile_data' =
         [uuid |-> None,
          vcgt |-> [gamma |-> args.gamma,
                    color_temperature |-> args.temperature,
                    temp_color |-> temp_color,
                    vcgt_array |-> VcgtArray(args.gamma, temp_color)]]
    /\ pc' = "ramp_done"
    /\ UNCHANGED <<argv, args, exit_status, svcVars, display_devices, l,
                   base_profile, is_our_profile, new_path, new_profile,
                   polls, error, used_uuids, calls, processed, report>>

NextRamp ==
    \E temp_color \in RampColours \X RampColours \X RampColours :
        RampGenerate(temp_color)

SpecRamp == InitRamp /\ [][NextRamp]_vars

(***************************************************************************)
(* Properties                                                              *)
(***************************************************************************)
ApplyMode  == pc # "start" /\ ~args.usage /\ ~args.info_mode /\ ~args.remove_profile
RemoveMode == pc # "start" /\ ~args.usage /\ ~args.info_mode /\ args.remove_profile

Terminated == pc \in {"exit", "crashed"}

\* the calls of handle_apply_mode among the logged ones
ApplyCall(i) == calls[i].fn = "apply"

\* call i detaches the old profile or deletes its file
RemovesOld(i) ==
    /\ ApplyCall(i)
    /\ \/ calls[i].op = "remove_profile" /\ calls[i].ok
       \/ calls[i].op = "unlink"

\* before call i the new profile was found, connected, added and made the
\* default, in this order and all with success
ActivatedBefore(i) ==
    \E f, c, a, m \in 1..Len(calls) :
        /\ f < c /\ c < a /\ a < m /\ m < i
        /\ ApplyCall(f) /\ calls[f].op = "find_by_filename" /\ calls[f].ok
        /\ ApplyCall(c) /\ calls[c].op = "profile_connect" /\ calls[c].ok
        /\ ApplyCall(a) /\ calls[a].op = "add_profile" /\ calls[a].ok
        /\ ApplyCall(m) /\ calls[m].op = "make_default" /\ calls[m].ok

\* C1: in apply mode the old base profile is detached and its file deleted
\* only if it is tool-owned and the new profile was detected, connected,
\* added to the device and made the default, all with success; after a
\* failed connect, add or make-default there is no detach and no delete.
C1_RemovedOnlyAfterActivation ==
    \A i \in 1..Len(calls) :
        RemovesOld(i) =>
            /\ calls[i].arg # NoFilename
            /\ HasPrefix(Basename(calls[i].arg), OUR_PREFIX)
            /\ ActivatedBefore(i)

\* C2: in apply mode a device that had a profile when the run started has
\* at least one profile in every state during and after apply.
C2_NeverZeroProfiles ==
    ApplyMode =>
        \A d \in Devices : devProfiles0[d] # <<>> => devProfiles[d] # <<>>

\* C3: when the registration wait times out, apply has made no add-profile,
\* make-default or remove-profile call and has deleted no file: the device
\* has the profiles it had when apply started, the old one first, their
\* files exist and the newly written file is on disk.
C3_TimeoutTouchesNothing ==
    report.kind = "timed_out" =>
        LET d == calls[1].dev
        IN  /\ \A i \in 1..Len(calls) :
                  ApplyCall(i) =>
                      /\ calls[i].op \in {"load_icc", "save_file", "find_by_filename"}
                      /\ calls[i].op = "save_file" => calls[i].arg \in files
            /\ devProfiles[d] = IF devProfiles0[d] = <<>> THEN <<SRGBName>>
                                ELSE devProfiles0[d]
            /\ FilesOf(devProfiles[d]) \subseteq files

\* apply has returned after a timeout on a device whose base profile is
\* tool-owned, and on one whose base profile is not
C3_Witness ==
    /\ report.kind = "timed_out"
    /\ pc = "device"
    /\ devProfiles[calls[1].dev][1] = OwnedName(calls[1].dev)
    /\ Len(calls) = 3 + MaxPolls

\* the file name is NULL or its base name lacks the prefix
NotToolOwned(f) == f = NoFilename \/ ~HasPrefix(Basename(f), OUR_PREFIX)

\* C4: remove mode on a device whose active profile is not tool-owned makes
\* no remove-profile, add-profile or make-default call and deletes no file;
\* it reports that the profile was not created by this tool.
C4_RemoveKeepsForeign ==
    RemoveMode =>
        \A d \in Devices :
            (devProfiles0[d] # <<>> /\ NotToolOwned(devProfiles0[d][1])) =>
                /\ devProfiles[d] = devProfiles0[d]
                /\ FilesOf(devProfiles0[d]) \subseteq files
                /\ (calls # <<>> /\ calls[1].dev = d) =>
                      /\ \A i \in 1..Len(calls) :
                            calls[i].fn = "main" /\ calls[i].op = "profile_connect"
                      /\ (pc \in {"device", "exit"} /\ calls[Len(calls)].ok) =>
                            report.kind = "not_created_by_this_tool"

\* remove mode has handled a device whose active profile is not tool-owned
C4_Witness ==
    /\ RemoveMode
    /\ pc = "device"
    /\ report.kind = "not_created_by_this_tool"
    /\ calls # <<>>
    /\ devProfiles0[calls[1].dev][1] = ForeignName(calls[1].dev)

\* is the sequence p a prefix of the sequence q
IsPrefix(p, q) == Len(p) <= Len(q) /\ SubSeq(q, 1, Len(p)) = p

\* C5: the devices are processed one after another in the order of the
\* list, every call is made for the device being processed, and a failure
\* on one device ends that device's processing only: when the run ends every
\* device of the list has been processed.
C5_EveryDeviceProcessed ==
    /\ IsPrefix(processed, display_devices)
    /\ \A i \in 1..Len(calls) : calls[i].dev = processed[Len(processed)]
    /\ (Terminated /\ display_devices # <<>>) => processed = display_devices

\* C6: a failure to connect to the service and a failure to enumerate the
\* devices both end the run with a non-zero exit status and no device
\* processed.
C6_SetupErrorsExitNonZero ==
    report.kind \in {"connect_failed", "get_devices_failed"} =>
        /\ pc = "exit"
        /\ exit_status # 0
        /\ processed = <<>>

\* the base name b has the gamma fields of the canonical form: after the
\* prefix and "g" nine digits, then "t" and an integer
FieldsCanonical(b) ==
    /\ HasPrefix(b, OUR_PREFIX \o <<"g">>)
    /\ Len(b) >= 23
    /\ \A i \in 13..21 : b[i] \in Digits
    /\ b[22] = "t"
    /\ \/ b[23] \in Digits
       \/ b[23] = "-" /\ Len(b) >= 24 /\ b[24] \in Digits

\* the number written in the three digits of b from position i
Field3(b, i) ==
    100 * DigitVal(b[i]) + 10 * DigitVal(b[i + 1]) + DigitVal(b[i + 2])

\* C7: decoding a name in info mode has three outcomes: not tool-owned for
\* a name without the prefix; the numbers for a prefixed name with three
\* 3-digit gamma fields, "t" and an integer; unparseable for every other
\* prefixed name.
C7_DecodeThreeOutcomes ==
    (pc = "reported" /\ base_profile # NoFilename) =>
        LET b == Basename(base_profile)
        IN  /\ ~HasPrefix(b, OUR_PREFIX) => report.kind = "not_ours"
            /\ FieldsCanonical(b) =>
                  report = [kind |-> "params", r |-> Field3(b, 13),
                            g |-> Field3(b, 16), b |-> Field3(b, 19),
                            temp |-> Atoi(SubSeq(b, 23, Len(b)))]
            /\ (HasPrefix(b, OUR_PREFIX) /\ ~FieldsCanonical(b)) =>
                  report.kind = "unparseable"

\* round(f * 100) for the gfloat f, the product taken exactly
Round100(f) ==
    LET x == 25 * Abs(f[1])
        e == f[2] + 2
        a == IF e >= 0 THEN x * Pow2(e)
             ELSE IF 0 - e > 30 THEN 0
             ELSE LET d == Pow2(0 - e)
                  IN  (x \div d) + (IF (x % d) >= d - (x % d) THEN 1 ELSE 0)
    IN  IF f[1] < 0 THEN 0 - a ELSE a

\* C8: for a gamma whose rounded percentages round(g*100) are in 0..999,
\* decoding the name built from (g, t, token) gives exactly
\* (round(g[0]*100), round(g[1]*100), round(g[2]*100), t).
C8_RoundTrip ==
    (pc = "decoded" /\ \A c \in 1..3 : Round100(args.gamma[c]) \in 0..999) =>
        report = [kind |-> "params", r |-> Round100(args.gamma[1]),
                  g |-> Round100(args.gamma[2]), b |-> Round100(args.gamma[3]),
                  temp |-> args.temperature]

\* the base name b is of the canonical form: the prefix, "g", nine digits,
\* "t", the temperature in decimal, "-", a token and ".icc"
CanonicalName(b) ==
    /\ FieldsCanonical(b)
    /\ LET t == ScanInt(b, 23, Len(b))
       IN  /\ t.ok
           /\ t.next + 5 <= Len(b)
           /\ b[t.next] = "-"
           /\ SubSeq(b, Len(b) - 3, Len(b)) = <<".", "i", "c", "c">>

\* C9: every file name apply persists has the canonical form with three
\* gamma fields of exactly 3 digits; for a gamma whose scaled value is
\* outside 0..999 no file is written.
C9_PersistedNamesCanonical ==
    \A i \in 1..Len(calls) :
        (ApplyCall(i) /\ calls[i].op = "save_file") =>
            CanonicalName(Basename(calls[i].arg))

\* C10: a gamma with a zero or negative channel is rejected before the ramp
\* is computed: no ramp is computed from it, no file is written and no
\* profile is activated.
C10_NonPositiveGammaRejected ==
    (ApplyMode /\ \E c \in 1..3 : ~FloatPositive(args.gamma[c])) =>
        /\ profile_data.vcgt = None
        /\ \A i \in 1..Len(calls) :
              ApplyCall(i) =>
                  calls[i].op \notin {"save_file", "add_profile", "make_default"}

\* C11: ramp synthesis is fail-fast: when the black-body routine signals
\* failure, or embedding the ramp into the profile fails, apply writes no
\* file and activates nothing.
C11_RampFailureStopsApply ==
    (profile_data.vcgt # None /\
        (~profile_data.vcgt.blackbody_ok \/ ~profile_data.vcgt.set_ok)) =>
        \A i \in 1..Len(calls) :
            ApplyCall(i) =>
                calls[i].op \notin {"save_file", "add_profile", "make_default"}

\* the ramp generate_vcgt built
RampBuilt == pc = "ramp_done"
Ramp == profile_data.vcgt.vcgt_array

\* C12: for a gamma with all channels > 0 the ramp has exactly 256 samples,
\* every channel of every sample lies in [0, 1], and each channel never
\* decreases as the sample index grows.
C12_RampInRangeAndMonotone ==
    RampBuilt =>
        /\ Len(Ramp) = 256
        /\ \A n \in 1..Len(Ramp), c \in 1..3 :
              /\ Ramp[n][c] >= 0
              /\ Ramp[n][c] <= RampUnit
              /\ n > 1 => Ramp[n - 1][c] <= Ramp[n][c]

\* a ramp with a channel that the clamp cut to 1 before the last sample and
\* a channel that rises strictly between 0 and 1
C12_Witness ==
    /\ RampBuilt
    /\ \A c \in 1..3 : FloatPositive(args.gamma[c])
    /\ profile_data.vcgt.temp_color[1] = 5
    /\ \E n \in 2..255 : Ramp[n][1] = RampUnit
    /\ \E n \in 2..255 : 0 < Ramp[n][2] /\ Ramp[n][2] < Ramp[n + 1][2]
                           /\ Ramp[n + 1][2] < RampUnit

\* C13: the first sample is 0 in every channel and the last sample is the
\* clamped colour of the temperature; with gamma (1,1,1) the last sample is
\* that colour itself when it lies in [0, 1].
C13_RampEndpoints ==
    RampBuilt =>
        LET temp_color == profile_data.vcgt.temp_color
        IN  /\ \A c \in 1..3 : Ramp[1][c] = 0
            /\ \A c \in 1..3 :
                  4 * Ramp[256][c] =
                      (IF temp_color[c] > 4 THEN 4 ELSE temp_color[c])
                          * RampUnit
            /\ (args.gamma = <<One, One, One>>
                    /\ \A c \in 1..3 : temp_color[c] <= 4) =>
                  \A c \in 1..3 : 4 * Ramp[256][c] = temp_color[c] * RampUnit

\* the ramp of gamma (1,1,1) at 6500 K for a colour below 1 in two channels
C13_Witness ==
    /\ RampBuilt
    /\ args.gamma = <<One, One, One>>
    /\ args.temperature = 6500
    /\ profile_data.vcgt.temp_color = <<4, 2, 2>>
    /\ Ramp[1] = <<0, 0, 0>>
    /\ Ramp[256] = <<RampUnit, RampUnit \div 2, RampUnit \div 2>>

\* the detection polls of the apply on the device being processed
FindCalls ==
    {i \in 1..Len(calls) : ApplyCall(i) /\ calls[i].op = "find_by_filename"}

ApplyRunning ==
    pc \in {"apply", "stamp", "save", "poll", "connect_new", "add",
            "make_default", "cleanup"}

WaitBounded ==
    /\ Cardinality(FindCalls) <= MaxPolls
    /\ \A i \in FindCalls : calls[i].ok => \A j \in FindCalls : j <= i
    /\ report.kind = "timed_out" =>
          /\ pc # "poll"
          /\ Cardinality(FindCalls) = MaxPolls
          /\ \A i \in FindCalls : ~calls[i].ok

\* C14: the registration wait always ends: the polls stop at the first
\* successful one or when the deadline has passed, the wait is entered only
\* from the save and never again for that device, and every apply that
\* started comes to its end.
C14_WaitEnds ==
    /\ []WaitBounded
    /\ [][(pc # "poll" /\ pc' = "poll") => pc = "save"]_vars
    /\ (ApplyRunning ~> ~ApplyRunning)

\* an apply that has ended after the deadline passed, every poll failed
C14_Witness ==
    /\ ApplyMode
    /\ ~ApplyRunning
    /\ report.kind = "timed_out"
    /\ Cardinality(FindCalls) = MaxPolls

\* the files that existed when the program started
InitialFiles ==
    UNION {FilesOf(devProfiles0[d]) : d \in Devices} \cup {SRGBName}

\* C15: apply never deletes the file it has written: a file that the run
\* has created stays on disk through every later step, whatever fails.
C15_NewFileKept ==
    [][(files \ InitialFiles) \subseteq files']_vars

\* an apply that wrote its file, failed to connect to the new profile,
\* removed the old profile and deleted the old file, and has returned
C15_Witness ==
    /\ ~ApplyRunning
    /\ \E i, j, k \in 1..Len(calls) :
          /\ ApplyCall(i) /\ calls[i].op = "save_file" /\ calls[i].ok
          /\ calls[i].arg \in files \ InitialFiles
          /\ ApplyCall(j) /\ calls[j].op = "profile_connect"
          /\ calls[j].arg = calls[i].arg /\ ~calls[j].ok
          /\ ApplyCall(k) /\ calls[k].op = "unlink" /\ calls[k].ok
          /\ calls[k].arg \notin files

\* C19: the backing file of a profile is deleted only after the detach call
\* on it has succeeded; when the detach fails the file stays, so every
\* profile a device still has keeps its file.
C19_DeleteOnlyAfterDetach ==
    /\ \A i \in 1..Len(calls) :
          calls[i].op = "unlink" =>
              /\ i > 1
              /\ calls[i - 1].op = "remove_profile"
              /\ calls[i - 1].ok
              /\ calls[i - 1].arg = calls[i].arg
              /\ calls[i - 1].dev = calls[i].dev
    /\ \A i \in 1..Len(calls) :
          (calls[i].op = "remove_profile" /\ ~calls[i].ok) =>
              calls[i].arg \in files
    /\ \A d \in Devices : FilesOf(devProfiles[d]) \subseteq files

\* a remove whose detach failed: the profile is still the device's and its
\* file is still on disk
C19_Witness ==
    \E i \in 1..Len(calls) :
        /\ calls[i].fn = "remove"
        /\ calls[i].op = "remove_profile"
        /\ ~calls[i].ok
        /\ InList(devProfiles[calls[i].dev], calls[i].arg)
        /\ calls[i].arg \in files

\* a word of the command line that is one of the tool's flags
KnownFlag(a) ==
    \/ a \in {FlagR, FlagI, FlagG, FlagT}
    \/ HasPrefix(a, FlagGe)
    \/ HasPrefix(a, FlagTe)

\* no argument, an unknown flag, or -g or -t as the last word
ArgvInvalid(av) ==
    \/ Len(av) < 2
    \/ av[Len(av)] \in {FlagG, FlagT}
    \/ \E i \in 2..Len(av) :
          ~KnownFlag(av[i]) /\ av[i - 1] \notin {FlagG, FlagT}

\* C16: a command line with no argument, an unknown flag, or -g or -t
\* without a value prints the usage text and exits with status 1 before
\* the service is contacted; a run that went through its devices exits
\* with status 0.
C16_InvalidArgsUsage ==
    /\ (pc # "start" /\ ArgvInvalid(argv)) =>
          /\ pc = "exit"
          /\ exit_status = 1
          /\ report.kind = "usage"
          /\ calls = <<>>
    /\ (pc = "exit" /\ processed # <<>>) => exit_status = 0

\* the device whose processing began last
LastDevice == processed[Len(processed)]

\* an apply that ended without the new profile being registered
ApplyEndedUnregistered ==
    /\ ApplyMode
    /\ processed # <<>>
    /\ report.kind \in {"load_failed", "save_failed", "timed_out"}

\* C17: when apply ends without the new profile ever being registered
\* (the ICC data could not be loaded, the save failed, or the wait timed
\* out), the device has the profiles and the default it had before its
\* processing began, a device that had no profile included.
C17_UnregisteredRestoresPreState ==
    ApplyEndedUnregistered =>
        devProfiles[LastDevice] = devProfiles0[LastDevice]

InfoMode == pc # "start" /\ ~args.usage /\ args.info_mode

\* C18: the sRGB fallback belongs to apply: in info mode and in remove mode
\* no add-profile and no make-default call is made for any device, a device
\* without a profile included, and info mode changes neither the devices'
\* profiles nor the files.
C18_FallbackOnlyInApply ==
    /\ (InfoMode \/ RemoveMode) =>
          \A i \in 1..Len(calls) :
              calls[i].op \notin {"add_profile", "make_default"}
    /\ InfoMode => (devProfiles = devProfiles0 /\ files = InitialFiles)

\* call j of the log is an apply call of kind op
ApplyOp(j, op) == ApplyCall(j) /\ calls[j].op = op

\* the poll only after the save succeeded, and nothing after a failed save
PollAfterSave ==
    \A i \in 1..Len(calls) :
        /\ ApplyOp(i, "find_by_filename") =>
              \E j \in 1..(i - 1) : ApplyOp(j, "save_file") /\ calls[j].ok
        /\ (ApplyOp(i, "save_file") /\ ~calls[i].ok) => i = Len(calls)

\* add-profile and make-default only after a poll found the path and the
\* profile found was connected to; make-default after add-profile
BindAfterFound ==
    \A i \in 1..Len(calls) :
        /\ (ApplyOp(i, "add_profile") \/ ApplyOp(i, "make_default")) =>
              \E j, k \in 1..(i - 1) :
                  /\ j < k
                  /\ ApplyOp(j, "find_by_filename") /\ calls[j].ok
                  /\ ApplyOp(k, "profile_connect") /\ calls[k].ok
                  /\ calls[j].arg = calls[i].arg
                  /\ calls[k].arg = calls[i].arg
        /\ ApplyOp(i, "make_default") =>
              \E j \in 1..(i - 1) : ApplyOp(j, "add_profile")

\* a detach of the old profile only after add-profile and make-default
DetachAfterBind ==
    \A i \in 1..Len(calls) :
        ApplyOp(i, "remove_profile") =>
            \E j, k \in 1..(i - 1) :
                /\ j < k
                /\ ApplyOp(j, "add_profile")
                /\ ApplyOp(k, "make_default")

\* C20: the steps of apply come in a fixed order: the first poll only
\* after the save succeeded (a failed save is followed by no poll, no bind
\* and no cleanup); add-profile and make-default only after a poll found
\* the path and the found profile was connected to; make-default after
\* add-profile; a detach of the old profile after both.
C20_ApplyStepOrder ==
    /\ PollAfterSave
    /\ BindAfterFound
    /\ DetachAfterBind

\* C21: the path of the file apply writes differs from the path of the base
\* profile, so what apply's cleanup detaches and deletes is never the file
\* just written or the profile just activated, also when the requested
\* gamma and temperature are those of the tool-owned base profile.
C21_NewPathNotBase ==
    /\ (ApplyRunning /\ new_path # None) => new_path # base_profile
    /\ \A i, j \in 1..Len(calls) :
          (ApplyOp(i, "save_file")
              /\ (ApplyOp(j, "remove_profile") \/ ApplyOp(j, "unlink"))) =>
              calls[i].arg # calls[j].arg
    /\ \A i \in 1..Len(calls) :
          /\ (ApplyOp(i, "save_file") /\ calls[i].ok) => calls[i].arg \in files
          /\ (ApplyOp(i, "make_default") /\ calls[i].ok) =>
                /\ devProfiles[calls[i].dev] # <<>>
                /\ devProfiles[calls[i].dev][1] = calls[i].arg

\* an apply with the gamma and temperature of its tool-owned base profile
\* that activated the new profile, detached the old one and deleted its file
C21_Witness ==
    \E i, j, k \in 1..Len(calls) :
        /\ ApplyOp(i, "save_file") /\ calls[i].ok
        /\ ApplyOp(j, "make_default") /\ calls[j].ok
        /\ ApplyOp(k, "unlink") /\ calls[k].ok
        /\ SscanfName(Basename(calls[i].arg)).items = 4
        /\ SscanfName(Basename(calls[i].arg))
               = SscanfName(Basename(calls[k].arg))
        /\ calls[i].arg \in files
        /\ calls[k].arg \notin files

\* the next step of handle_apply_mode is a call that is given &error:
\* cd_profile_load_icc, cd_icc_save_file, cd_profile_connect_sync on the new
\* profile, cd_device_remove_profile_sync
AtErrorCall ==
    \/ pc \in {"apply", "save", "connect_new"}
    \/ pc = "cleanup" /\ CleanupNeeded

\* C22: at every service call that takes the error out-parameter the error
\* variable is NULL: no call is given an error that an earlier failed call
\* set or that has been freed, on every path of apply.
C22_ErrorNullAtCalls ==
    AtErrorCall => error = "NULL"


=============================================================================
